---------------------------- MODULE Spec2Model ----------------------------
(***************************************************************************)
(* A model of scripts/unified_scanner.py: the project classifier, the      *)
(* configuration loader, the .gitignore matcher, the scanner (walk, tree,  *)
(* content dump, summary) and the driver main().                           *)
(*                                                                         *)
(* Strings are sequences of one-character strings, so that the string      *)
(* operations of the program (strip, startswith, lower, Path.suffix,       *)
(* fnmatch, basename, ordering) are computed character by character.       *)
(* A path below a project is a sequence of names.                          *)
(***************************************************************************)
EXTENDS Integers, Sequences, FiniteSets, TLC

VARIABLES
    \* ---- the file system and the process (driver main) ----
    input_exists,     \* input_dir.exists()
    input_projects,   \* the project directories below the input root
    output_files,     \* the output directory: file name -> what was written
    pc,               \* position of main()
    todo,             \* the projects main() has still to process, sorted
    cur,              \* the project being processed
    success_count,
    total_stats,
    exit_status,      \* the value main() returned
    log,              \* what main() printed of each project's outcome
    \* ---- one UnifiedScanner ----
    config,           \* scanner.config, a ProjectConfig
    patterns,         \* scanner.gitignore.patterns
    stats,            \* scanner.stats
    phase,            \* position of scan_directory
    files_to_process,
    walk_pending,     \* directories os.walk has still to yield
    \* ---- calls of the pure functions on their own ----
    fn_pc, fn_in, fn_out

vars == <<input_exists, input_projects, output_files, pc, todo, cur,
          success_count, total_stats, exit_status, log, config, patterns, stats,
          phase, files_to_process, walk_pending, fn_pc, fn_in, fn_out>>

mainVars == <<input_exists, input_projects, output_files, pc, todo, cur,
              success_count, total_stats, exit_status, log>>
scanVars == <<stats, phase, files_to_process, walk_pending>>
fnVars == <<fn_pc, fn_in, fn_out>>

None == [none |-> TRUE]

-----------------------------------------------------------------------------
(* Strings *)

\* The printable ASCII characters, code 32 to 126, in order (the double quote, the backtick
\* and the backslash are written by name).
Ascii ==
    <<" ", "!", "QUOTE", "#", "$", "%", "&", "'", "(", ")", "*", "+",
      ",", "-", ".", "/", "0", "1", "2", "3", "4", "5", "6", "7",
      "8", "9", ":", ";", "<", "=", ">", "?", "@", "A", "B", "C",
      "D", "E", "F", "G", "H", "I", "J", "K", "L", "M", "N", "O",
      "P", "Q", "R", "S", "T", "U", "V", "W", "X", "Y", "Z", "[",
      "BACKSLASH", "]", "^", "_", "BACKTICK", "a", "b", "c", "d", "e", "f", "g",
      "h", "i", "j", "k", "l", "m", "n", "o", "p", "q", "r", "s",
      "t", "u", "v", "w", "x", "y", "z", "{", "|", "}", "~">>

\* A lone surrogate code point (U+DCFF), which is what os.fsdecode gives for a
\* byte of a file name that is not UTF-8.
Surrogate == "U+DCFF"

Code(c) ==
    IF c = Surrogate THEN 56575
    ELSE 31 + (CHOOSE i \in 1..Len(Ascii) : Ascii[i] = c)

Chr(n) == Ascii[n - 31]

\* str.lower(), one character
lower_char(c) ==
    IF c # Surrogate /\ Code(c) >= 65 /\ Code(c) <= 90 THEN Chr(Code(c) + 32) ELSE c

\* str.lower()
lower(s) == [i \in 1..Len(s) |-> lower_char(s[i])]

\* str.startswith(c) for a one-character c
startswith(s, c) == Len(s) >= 1 /\ s[1] = c

\* str.rfind(c), counted from 1; 0 when c does not occur
rfind(s, c) ==
    IF \E i \in 1..Len(s) : s[i] = c
    THEN CHOOSE i \in 1..Len(s) : s[i] = c /\ \A j \in (i+1)..Len(s) : s[j] # c
    ELSE 0

\* pathlib's PurePath.suffix: from the last dot of the name on, unless that dot
\* is the first or the last character
suffix(name) ==
    LET i == rfind(name, ".")
    IN  IF 1 < i /\ i < Len(name) THEN SubSeq(name, i, Len(name)) ELSE <<>>

\* str.strip(): leading and trailing blanks removed
RECURSIVE lstrip(_)
lstrip(s) == IF s # <<>> /\ Head(s) = " " THEN lstrip(Tail(s)) ELSE s

RECURSIVE rstrip(_)
rstrip(s) ==
    IF s # <<>> /\ s[Len(s)] = " " THEN rstrip(SubSeq(s, 1, Len(s) - 1)) ELSE s

strip(s) == rstrip(lstrip(s))

\* fnmatch.fnmatch(name, pat) on POSIX (normcase is the identity): "*" matches
\* any run of characters, "/" included, "?" any one character, any other
\* character itself. Character classes ("[...]") are not modelled: no pattern
\* of the model holds a "[".
RECURSIVE fnmatch(_, _)
fnmatch(name, pat) ==
    IF pat = <<>> THEN name = <<>>
    ELSE IF Head(pat) = "*"
         THEN fnmatch(name, Tail(pat)) \/ (name # <<>> /\ fnmatch(Tail(name), pat))
    ELSE IF Head(pat) = "?"
         THEN name # <<>> /\ fnmatch(Tail(name), Tail(pat))
    ELSE name # <<>> /\ Head(name) = Head(pat) /\ fnmatch(Tail(name), Tail(pat))

\* os.path.basename(path): what follows the last "/"
basename(path) == SubSeq(path, rfind(path, "/") + 1, Len(path))

\* str(rel_path): the names of a relative path joined by "/"
RECURSIVE str_path(_)
str_path(p) ==
    IF p = <<>> THEN <<".">>
    ELSE IF Len(p) = 1 THEN p[1]
    ELSE p[1] \o <<"/">> \o str_path(Tail(p))

\* s < t for two strings, by code point
RECURSIVE str_less(_, _)
str_less(s, t) ==
    IF t = <<>> THEN FALSE
    ELSE IF s = <<>> THEN TRUE
    ELSE IF Head(s) = Head(t) THEN str_less(Tail(s), Tail(t))
    ELSE Code(Head(s)) < Code(Head(t))

\* the file's name can be written to the UTF-8 output file
encodable(s) == \A i \in 1..Len(s) : s[i] # Surrogate

-----------------------------------------------------------------------------
(* GitignoreParser *)

\* GitignoreParser.load: the patterns of the lines read so far, in file order
RECURSIVE load(_, _)
load(lines, acc) ==
    IF lines = <<>> THEN acc
    ELSE LET line == strip(Head(lines))
         IN  IF line = <<>> \/ startswith(line, "#")
             THEN load(Tail(lines), acc)
             ELSE LET is_negation == startswith(line, "!")
                      pattern == IF is_negation THEN Tail(line) ELSE line
                  IN  load(Tail(lines),
                           Append(acc, [pattern |-> pattern,
                                        is_negation |-> is_negation]))

\* GitignoreParser.__init__: a .gitignore file is None when the project has
\* none, and else [readable, lines]; a file that cannot be read leaves the
\* patterns empty (load catches the exception).
GitignoreParser(file) ==
    IF file = None THEN <<>>
    ELSE IF ~file.readable THEN <<>>
    ELSE load(file.lines, <<>>)

\* a bug should_ignore could have: the first matching pattern decides
RECURSIVE should_ignore_first_match(_, _)
should_ignore_first_match(pats, path) ==
    IF pats = <<>> THEN FALSE
    ELSE IF fnmatch(path, Head(pats).pattern)
            \/ fnmatch(basename(path), Head(pats).pattern)
         THEN ~Head(pats).is_negation
    ELSE should_ignore_first_match(Tail(pats), path)

\* the loop of GitignoreParser.should_ignore
RECURSIVE should_ignore_loop(_, _, _)
should_ignore_loop(pats, path, ignored) ==
    IF pats = <<>> THEN ignored
    ELSE should_ignore_loop(
             Tail(pats), path,
             IF fnmatch(path, Head(pats).pattern)
                \/ fnmatch(basename(path), Head(pats).pattern)
             THEN ~Head(pats).is_negation
             ELSE ignored)

\* GitignoreParser.should_ignore
should_ignore(pats, path) ==
    IF pats = <<>> THEN FALSE ELSE should_ignore_loop(pats, path, FALSE)

-----------------------------------------------------------------------------
(* ProjectConfig and ConfigLoader *)

DEFAULT_MAX_FILE_SIZE == 1048576

BaseCodeExtensions ==
    { <<".","p","y">>, <<".","j","s">>, <<".","j","s","x">>, <<".","t","s">>,
      <<".","t","s","x">>, <<".","j","a","v","a">>, <<".","k","t">>, <<".","k","t","s">>,
      <<".","r","s">>, <<".","g","o">>, <<".","c">>, <<".","c","p","p">>, <<".","h">>,
      <<".","h","p","p">>, <<".","c","s">>, <<".","r","b">>, <<".","p","h","p">>,
      <<".","s","w","i","f","t">>, <<".","d","a","r","t">>, <<".","h","t","m","l">>,
      <<".","c","s","s">>, <<".","s","c","s","s">>, <<".","s","a","s","s">>,
      <<".","m","d">>, <<".","j","s","o","n">>, <<".","y","a","m","l">>,
      <<".","y","m","l">>, <<".","x","m","l">>, <<".","t","o","m","l">>, <<".","s","h">>,
      <<".","b","a","s","h">> }

BaseConfigFiles ==
    { <<"p","a","c","k","a","g","e",".","j","s","o","n">>,
      <<"t","s","c","o","n","f","i","g",".","j","s","o","n">>,
      <<"w","e","b","p","a","c","k",".","c","o","n","f","i","g",".","j","s">>,
      <<"v","i","t","e",".","c","o","n","f","i","g",".","j","s">>,
      <<"n","e","x","t",".","c","o","n","f","i","g",".","j","s">>,
      <<".","e","s","l","i","n","t","r","c",".","j","s">>,
      <<"r","e","q","u","i","r","e","m","e","n","t","s",".","t","x","t">>,
      <<"s","e","t","u","p",".","p","y">>,
      <<"p","y","p","r","o","j","e","c","t",".","t","o","m","l">>,
      <<"P","i","p","f","i","l","e">>, <<"p","o","m",".","x","m","l">>,
      <<"b","u","i","l","d",".","g","r","a","d","l","e">>,
      <<"s","e","t","t","i","n","g","s",".","g","r","a","d","l","e">>,
      <<"C","a","r","g","o",".","t","o","m","l">>, <<"g","o",".","m","o","d">>,
      <<"c","o","m","p","o","s","e","r",".","j","s","o","n">>,
      <<"G","e","m","f","i","l","e">>, <<"p","u","b","s","p","e","c",".","y","a","m","l">>,
      <<"D","o","c","k","e","r","f","i","l","e">>,
      <<"d","o","c","k","e","r","-","c","o","m","p","o","s","e",".","y","m","l">>,
      <<"R","E","A","D","M","E",".","m","d">>, <<"L","I","C","E","N","S","E">>,
      <<".","g","i","t","i","g","n","o","r","e">> }

BaseIgnoreDirs ==
    { <<"n","o","d","e","_","m","o","d","u","l","e","s">>, <<"d","i","s","t">>,
      <<"b","u","i","l","d">>, <<"t","a","r","g","e","t">>,
      <<"_","_","p","y","c","a","c","h","e","_","_">>, <<".","g","i","t">>,
      <<".","s","v","n">>, <<".","h","g">>, <<".","v","s","c","o","d","e">>,
      <<".","i","d","e","a">>, <<".","D","S","_","S","t","o","r","e">>,
      <<"v","e","n","v">>, <<"e","n","v">>, <<".","e","n","v">>,
      <<"v","i","r","t","u","a","l","e","n","v">>, <<".","t","o","x">>,
      <<"c","o","v","e","r","a","g","e">>, <<"h","t","m","l","c","o","v">>,
      <<".","p","y","t","e","s","t","_","c","a","c","h","e">>,
      <<".","m","y","p","y","_","c","a","c","h","e">>, <<".","g","r","a","d","l","e">>,
      <<".","m","v","n">>, <<"o","u","t">>, <<"b","i","n">>, <<"o","b","j">>,
      <<".","n","e","x","t">>, <<".","n","u","x","t">>, <<".","c","a","c","h","e">>,
      <<".","p","a","r","c","e","l","-","c","a","c","h","e">>, <<"P","o","d","s">>,
      <<"D","e","r","i","v","e","d","D","a","t","a">>,
      <<".","d","a","r","t","_","t","o","o","l">>,
      <<".","p","u","b","-","c","a","c","h","e">> }

BaseIgnoreFiles ==
    { <<".","D","S","_","S","t","o","r","e">>, <<"T","h","u","m","b","s",".","d","b">>,
      <<"d","e","s","k","t","o","p",".","i","n","i">>, <<"*",".","l","o","g">>,
      <<"*",".","p","i","d">>, <<"*",".","s","e","e","d">>, <<"*",".","l","o","c","k">>,
      <<"p","a","c","k","a","g","e","-","l","o","c","k",".","j","s","o","n">>,
      <<"y","a","r","n",".","l","o","c","k">>,
      <<"p","n","p","m","-","l","o","c","k",".","y","a","m","l">>,
      <<"P","i","p","f","i","l","e",".","l","o","c","k">>,
      <<"C","a","r","g","o",".","l","o","c","k">>, <<"g","o",".","s","u","m">>,
      <<".","e","n","v">>, <<".","e","n","v",".","l","o","c","a","l">>,
      <<".","e","n","v",".","p","r","o","d","u","c","t","i","o","n">> }

BaseIgnoreExtensions ==
    { <<".","p","y","c">>, <<".","p","y","o">>, <<".","p","y","d">>, <<".","s","o">>,
      <<".","d","l","l">>, <<".","d","y","l","i","b">>, <<".","c","l","a","s","s">>,
      <<".","j","a","r">>, <<".","e","x","e">>, <<".","b","i","n">>, <<".","o","b","j">>,
      <<".","o">>, <<".","p","n","g">>, <<".","j","p","g">>, <<".","j","p","e","g">>,
      <<".","g","i","f">>, <<".","i","c","o">>, <<".","s","v","g">>,
      <<".","w","o","f","f">>, <<".","w","o","f","f","2">>, <<".","t","t","f">>,
      <<".","o","t","f">>, <<".","e","o","t">>, <<".","m","p","3">>, <<".","m","p","4">>,
      <<".","a","v","i">>, <<".","m","o","v">>, <<".","z","i","p">>, <<".","t","a","r">>,
      <<".","g","z">> }

\* x in project_types, for a list
contains(list, x) == \E i \in 1..Len(list) : list[i] = x

\* set(list)
set(list) == {list[i] : i \in 1..Len(list)}

\* ConfigLoader.load_default_config
load_default_config(project_name, project_types) ==
    LET c0 == [name |-> project_name,
               project_type |-> IF project_types # <<>> THEN project_types[1]
                                ELSE "generic",
               code_extensions |-> BaseCodeExtensions,
               config_files |-> BaseConfigFiles,
               ignore_dirs |-> BaseIgnoreDirs,
               ignore_files |-> BaseIgnoreFiles,
               ignore_extensions |-> BaseIgnoreExtensions,
               ignore_patterns |-> <<>>,
               target_subdirs |-> {},
               max_file_size |-> DEFAULT_MAX_FILE_SIZE,
               include_hidden |-> FALSE]
        c1 == IF contains(project_types, "python") \/ contains(project_types, "django")
              THEN [c0 EXCEPT
                      !.target_subdirs = {<<"s","r","c">>, <<"a","p","p">>,
                                          <<"b","a","c","k","e","n","d">>,
                                          <<"b","a","c","k">>},
                      !.code_extensions = @ \cup {<<".","p","y","x">>,
                                                  <<".","p","y","i">>}]
              ELSE c0
        c2 == IF contains(project_types, "nodejs") \/ contains(project_types, "react")
                 \/ contains(project_types, "vue")
              THEN [c1 EXCEPT
                      !.target_subdirs = {<<"s","r","c">>, <<"l","i","b">>,
                                          <<"c","o","m","p","o","n","e","n","t","s">>,
                                          <<"p","a","g","e","s">>},
                      !.code_extensions = @ \cup {<<".","m","j","s">>,
                                                  <<".","c","j","s">>,
                                                  <<".","v","u","e">>}]
              ELSE c1
        c3 == IF contains(project_types, "java") \/ contains(project_types, "spring")
              THEN [c2 EXCEPT
                      !.target_subdirs =
                          {<<"s","r","c","/","m","a","i","n","/","j","a","v","a">>,
                           <<"s","r","c","/","m","a","i","n","/",
                             "r","e","s","o","u","r","c","e","s">>,
                           <<"s","r","c">>},
                      !.ignore_dirs = @ \cup {<<"t","a","r","g","e","t">>,
                                              <<".","g","r","a","d","l","e">>,
                                              <<".","m","v","n">>}]
              ELSE c2
        c4 == IF contains(project_types, "rust")
              THEN [c3 EXCEPT
                      !.target_subdirs = {<<"s","r","c">>},
                      !.ignore_dirs = @ \cup {<<"t","a","r","g","e","t">>}]
              ELSE c3
        c5 == IF contains(project_types, "go")
              THEN [c4 EXCEPT
                      !.target_subdirs = {<<"p","k","g">>, <<"c","m","d">>,
                                          <<"i","n","t","e","r","n","a","l">>}]
              ELSE c4
        c6 == IF contains(project_types, "flutter")
              THEN [c5 EXCEPT
                      !.target_subdirs = {<<"l","i","b">>},
                      !.ignore_dirs = @ \cup {<<".","d","a","r","t","_","t","o","o","l">>,
                                              <<"b","u","i","l","d">>,
                                              <<"a","n","d","r","o","i","d">>,
                                              <<"i","o","s">>}]
              ELSE c5
    IN  c6

\* The values of the keys of a .scanner-config.json: a list of strings, an
\* integer or a boolean. The unused fields keep every value of one shape.
JList(l) == [t |-> "list", list |-> l,    num |-> 0, bool |-> FALSE]
JInt(n)  == [t |-> "int",  list |-> <<>>, num |-> n, bool |-> FALSE]
JBool(b) == [t |-> "bool", list |-> <<>>, num |-> 0, bool |-> b]

\* a bug load_from_file could have: a key of the file replaces the set
\* (base_config.k = set(data[k])) instead of being merged into it
merge_key_replacing(st, data, key) ==
    IF st.raised \/ key \notin DOMAIN data THEN st
    ELSE IF data[key].t # "list" THEN [st EXCEPT !.raised = TRUE]
    ELSE [st EXCEPT !.cfg[key] = set(data[key].list)]

\* "if k in data: base_config.k.update(set(data[k]))"; set() of a value that
\* is not iterable raises TypeError, which ends the merge (st.raised)
merge_key(st, data, key) ==
    IF st.raised \/ key \notin DOMAIN data THEN st
    ELSE IF data[key].t # "list" THEN [st EXCEPT !.raised = TRUE]
    ELSE [st EXCEPT !.cfg[key] = @ \cup set(data[key].list)]

\* "if 'target_subdirs' in data: base_config.target_subdirs = set(...)"
replace_target_subdirs(st, data) ==
    IF st.raised \/ "target_subdirs" \notin DOMAIN data THEN st
    ELSE IF data["target_subdirs"].t # "list" THEN [st EXCEPT !.raised = TRUE]
    ELSE [st EXCEPT !.cfg.target_subdirs = set(data["target_subdirs"].list)]

\* "if 'max_file_size' in data: ..." and "if 'include_hidden' in data: ...":
\* the value is stored as it is (the model gives max_file_size integers and
\* include_hidden booleans only)
replace_scalars(st, data) ==
    LET s1 == IF ~st.raised /\ "max_file_size" \in DOMAIN data
              THEN [st EXCEPT !.cfg.max_file_size = data["max_file_size"].num]
              ELSE st
    IN  IF ~s1.raised /\ "include_hidden" \in DOMAIN data
        THEN [s1 EXCEPT !.cfg.include_hidden = data["include_hidden"].bool]
        ELSE s1

\* ConfigLoader.load_from_file. The file is [parseable, data]: json.load
\* raises on a file that is not JSON (or cannot be read); every exception is
\* caught and the config object is returned as far as it was merged.
load_from_file(config_file, base_config) ==
    IF ~config_file.parseable THEN base_config
    ELSE LET d  == config_file.data
             s0 == [cfg |-> base_config, raised |-> FALSE]
             s1 == merge_key(s0, d, "code_extensions")
             s2 == merge_key(s1, d, "ignore_dirs")
             s3 == merge_key(s2, d, "ignore_files")
             s4 == merge_key(s3, d, "ignore_extensions")
             s5 == replace_target_subdirs(s4, d)
             s6 == replace_scalars(s5, d)
         IN  s6.cfg

-----------------------------------------------------------------------------
(* The file system below a project, and ProjectDetector *)

\* A project directory is [name, files, gitignore, config_file]. A file is
\* [path, size, stat_ok, bin_ok, has_nul, text_ok, length]: path is its path
\* below the project, a sequence of names; stat_ok says that stat() succeeds
\* (it fails for a broken link); bin_ok that the file can be opened and read in
\* byte mode; has_nul that its first 1024 bytes hold a zero byte; text_ok that
\* reading it whole in text mode succeeds; length is the number of characters
\* that read returns. The directories are the ones the file paths pass.
Dirs(project) ==
    UNION { {SubSeq(f.path, 1, k) : k \in 1..(Len(f.path) - 1)} : f \in project.files }

FilePaths(project) == {f.path : f \in project.files}

FileAt(project, path) == CHOOSE f \in project.files : f.path = path

\* Path.name
name_of(path) == path[Len(path)]

\* the entries of a directory: directory.iterdir()
iterdir(project, directory) ==
    { p \in Dirs(project) \cup FilePaths(project) :
        Len(p) = Len(directory) + 1 /\ SubSeq(p, 1, Len(directory)) = directory }

\* (project_dir / pattern).exists()
exists(project, pattern) ==
    \E p \in Dirs(project) \cup FilePaths(project) : str_path(p) = pattern

DETECTION_PATTERNS ==
    <<
       [type |-> "nodejs", patterns |-> <<<<"p","a","c","k","a","g","e",".","j","s","o","n">>, <<"n","o","d","e","_","m","o","d","u","l","e","s">>>>],
       [type |-> "python", patterns |-> <<<<"r","e","q","u","i","r","e","m","e","n","t","s",".","t","x","t">>, <<"s","e","t","u","p",".","p","y">>, <<"p","y","p","r","o","j","e","c","t",".","t","o","m","l">>, <<"P","i","p","f","i","l","e">>, <<"_","_","p","y","c","a","c","h","e","_","_">>>>],
       [type |-> "django", patterns |-> <<<<"m","a","n","a","g","e",".","p","y">>, <<"s","e","t","t","i","n","g","s",".","p","y">>, <<"w","s","g","i",".","p","y">>>>],
       [type |-> "react", patterns |-> <<<<"p","a","c","k","a","g","e",".","j","s","o","n">>, <<"s","r","c","/","A","p","p",".","j","s","x">>, <<"s","r","c","/","A","p","p",".","t","s","x">>, <<"p","u","b","l","i","c","/","i","n","d","e","x",".","h","t","m","l">>>>],
       [type |-> "nextjs", patterns |-> <<<<"n","e","x","t",".","c","o","n","f","i","g",".","j","s">>, <<"n","e","x","t",".","c","o","n","f","i","g",".","m","j","s">>, <<"p","a","g","e","s">>, <<"a","p","p">>>>],
       [type |-> "vue", patterns |-> <<<<"p","a","c","k","a","g","e",".","j","s","o","n">>, <<"v","u","e",".","c","o","n","f","i","g",".","j","s">>, <<"s","r","c","/","A","p","p",".","v","u","e">>>>],
       [type |-> "angular", patterns |-> <<<<"p","a","c","k","a","g","e",".","j","s","o","n">>, <<"a","n","g","u","l","a","r",".","j","s","o","n">>, <<"s","r","c","/","a","p","p">>>>],
       [type |-> "java", patterns |-> <<<<"p","o","m",".","x","m","l">>, <<"b","u","i","l","d",".","g","r","a","d","l","e">>, <<"g","r","a","d","l","e","w">>, <<"s","r","c","/","m","a","i","n","/","j","a","v","a">>>>],
       [type |-> "maven", patterns |-> <<<<"p","o","m",".","x","m","l">>, <<"m","v","n","w">>>>],
       [type |-> "gradle", patterns |-> <<<<"b","u","i","l","d",".","g","r","a","d","l","e">>, <<"s","e","t","t","i","n","g","s",".","g","r","a","d","l","e">>, <<"g","r","a","d","l","e","w">>>>],
       [type |-> "spring", patterns |-> <<<<"p","o","m",".","x","m","l">>, <<"a","p","p","l","i","c","a","t","i","o","n",".","p","r","o","p","e","r","t","i","e","s">>, <<"a","p","p","l","i","c","a","t","i","o","n",".","y","m","l">>>>],
       [type |-> "rust", patterns |-> <<<<"C","a","r","g","o",".","t","o","m","l">>, <<"C","a","r","g","o",".","l","o","c","k">>, <<"s","r","c","/","m","a","i","n",".","r","s">>>>],
       [type |-> "go", patterns |-> <<<<"g","o",".","m","o","d">>, <<"g","o",".","s","u","m">>, <<"m","a","i","n",".","g","o">>>>],
       [type |-> "dotnet", patterns |-> <<<<".","c","s","p","r","o","j">>, <<".","s","l","n">>, <<".","f","s","p","r","o","j">>, <<".","v","b","p","r","o","j">>>>],
       [type |-> "php", patterns |-> <<<<"c","o","m","p","o","s","e","r",".","j","s","o","n">>, <<"i","n","d","e","x",".","p","h","p">>, <<"a","r","t","i","s","a","n">>>>],
       [type |-> "laravel", patterns |-> <<<<"c","o","m","p","o","s","e","r",".","j","s","o","n">>, <<"a","r","t","i","s","a","n">>, <<"a","p","p","/","H","t","t","p">>>>],
       [type |-> "ruby", patterns |-> <<<<"G","e","m","f","i","l","e">>, <<"R","a","k","e","f","i","l","e">>, <<".","r","b">>>>],
       [type |-> "rails", patterns |-> <<<<"G","e","m","f","i","l","e">>, <<"R","a","k","e","f","i","l","e">>, <<"c","o","n","f","i","g","/","a","p","p","l","i","c","a","t","i","o","n",".","r","b">>>>],
       [type |-> "flutter", patterns |-> <<<<"p","u","b","s","p","e","c",".","y","a","m","l">>, <<"l","i","b","/","m","a","i","n",".","d","a","r","t">>, <<"a","n","d","r","o","i","d">>, <<"i","o","s">>>>],
       [type |-> "docker", patterns |-> <<<<"D","o","c","k","e","r","f","i","l","e">>, <<"d","o","c","k","e","r","-","c","o","m","p","o","s","e",".","y","m","l">>>>]
    >>

\* ProjectDetector.detect_project_types. No pattern of the table holds a "*",
\* so the rglob branch (lines 86-88) is never taken.
detect_project_types(project) ==
    LET detected(row) == \E i \in 1..Len(row.patterns) : exists(project, row.patterns[i])
        rows == SelectSeq(DETECTION_PATTERNS, detected)
    IN  IF rows = <<>> THEN <<"generic">>
        ELSE [i \in 1..Len(rows) |-> rows[i].type]

-----------------------------------------------------------------------------
(* UnifiedScanner *)

\* a bug should_ignore_dir could have: the ignore list is matched against the
\* path below the project instead of the directory's name, so that only a
\* top-level directory is found in it
should_ignore_dir_by_path(dir_path) ==
    \/ ~config.include_hidden /\ startswith(name_of(dir_path), ".")
    \/ should_ignore(patterns, str_path(dir_path))
    \/ str_path(dir_path) \in config.ignore_dirs

\* UnifiedScanner.should_ignore_dir (the boolean of the pair it returns)
should_ignore_dir(dir_path) ==
    \/ ~config.include_hidden /\ startswith(name_of(dir_path), ".")
    \/ should_ignore(patterns, str_path(dir_path))
    \/ name_of(dir_path) \in config.ignore_dirs

\* UnifiedScanner.should_ignore_file (the boolean of the pair it returns)
should_ignore_file(f) ==
    LET filename == name_of(f.path)
        ext == lower(suffix(filename))
    IN  \/ ~config.include_hidden /\ startswith(filename, ".")
        \/ should_ignore(patterns, str_path(f.path))
        \/ \E pattern \in config.ignore_files : fnmatch(filename, pattern)
        \/ ext \in config.ignore_extensions
        \/ ~f.stat_ok
        \/ f.size > config.max_file_size

\* UnifiedScanner.should_include_file
should_include_file(f) ==
    LET filename == name_of(f.path)
        ext == lower(suffix(filename))
    IN  \/ filename \in config.config_files
        \/ ext \in config.code_extensions
        \/ ext = <<>> /\ ~startswith(filename, ".")

\* UnifiedScanner._is_binary: a zero byte in the first 1024 bytes; a file that
\* cannot be read counts as binary
is_binary(f) == IF f.bin_ok THEN f.has_nul ELSE TRUE

\* p < q for two paths: name by name, as PurePath compares its parts
RECURSIVE path_less(_, _)
path_less(p, q) ==
    IF q = <<>> THEN FALSE
    ELSE IF p = <<>> THEN TRUE
    ELSE IF Head(p) = Head(q) THEN path_less(Tail(p), Tail(q))
    ELSE str_less(Head(p), Head(q))

\* sorted(S): the paths of S in ascending order
RECURSIVE sorted(_)
sorted(S) ==
    IF S = {} THEN <<>>
    ELSE LET m == CHOOSE x \in S : \A y \in S \ {x} : path_less(x, y)
         IN  <<m>> \o sorted(S \ {m})

\* sorted(directory.iterdir(), key=lambda x: (not x.is_dir(), x.name)):
\* the directories by name, then the files by name
tree_items(project, directory) ==
    sorted(iterdir(project, directory) \cap Dirs(project))
    \o sorted(iterdir(project, directory) \cap FilePaths(project))

\* UnifiedScanner._write_tree: the lines it writes for the items from the
\* i-th on of a directory, then (write_tree) for a whole directory. A line is
\* [path, is_dir, prefix, connector]; the connector is "last" (the corner) or
\* "tee", a step of the prefix "blank" or "bar" (the box-drawing strings).
RECURSIVE write_tree_from(_, _, _, _)
write_tree_from(project, items, i, prefix) ==
    IF i > Len(items) THEN <<>>
    ELSE LET item == items[i]
             is_last_item == (i = Len(items))
             is_dir == item \in Dirs(project)
             ignore == IF is_dir THEN should_ignore_dir(item)
                       ELSE should_ignore_file(FileAt(project, item))
             rest == write_tree_from(project, items, i + 1, prefix)
         IN  IF ignore THEN rest
             ELSE <<[path |-> item, is_dir |-> is_dir, prefix |-> prefix,
                     connector |-> IF is_last_item THEN "last" ELSE "tee"]>>
                  \o (IF is_dir
                      THEN write_tree_from(
                               project, tree_items(project, item), 1,
                               prefix \o <<IF is_last_item THEN "blank" ELSE "bar">>)
                      ELSE <<>>)
                  \o rest

write_tree(project, directory) ==
    write_tree_from(project, tree_items(project, directory), 1, <<>>)

\* the lines of a tree that get written: output_file.write raises
\* UnicodeEncodeError at the first line whose name cannot be encoded
RECURSIVE written_lines(_)
written_lines(lines) ==
    IF lines = <<>> \/ ~encodable(name_of(Head(lines).path)) THEN <<>>
    ELSE <<Head(lines)>> \o written_lines(Tail(lines))

NewStats == [files_processed |-> 0, files_skipped |-> 0, total_size |-> 0, errors |-> 0]

\* the name of a project's output file
output_filename(project_name) == project_name \o <<"_","u","n","i","f","i","e","d","_","s","c","a","n",".","t","x","t">>

\* the output file as open(..., 'w') leaves it: created, or cut to nothing
EmptyFile == [header |-> None, tree |-> <<>>, sections |-> <<>>, summary |-> None]

Put(dir, name, content) ==
    [n \in DOMAIN dir \cup {name} |-> IF n = name THEN content ELSE dir[n]]

\* sorted(projects): the project directories by name
RECURSIVE sorted_projects(_)
sorted_projects(S) ==
    IF S = {} THEN <<>>
    ELSE LET m == CHOOSE x \in S : \A y \in S \ {x} : str_less(x.name, y.name)
         IN  <<m>> \o sorted_projects(S \ {m})

\* a bug main() could have: the status does not depend on success_count
exit_code_always_zero(n) == 0

\* "return 0 if success_count > 0 else 1"
exit_code(n) == IF n > 0 THEN 0 ELSE 1

\* a bug the dump could have: a file that cannot be read in text mode is
\* still counted as processed
dump_kind_error_as_content(f) ==
    IF is_binary(f) THEN "BINARY - SKIPPED" ELSE "content"

\* a bug the dump could have: the binary check is left out
dump_kind_no_binary_check(f) ==
    IF ~f.text_ok THEN "ERROR" ELSE "content"

\* what the dump does with a queued file (lines 398-421): the binary marker,
\* the error marker of the except clause when reading it raises, or its
\* content
dump_kind(f) ==
    IF is_binary(f) THEN "BINARY - SKIPPED"
    ELSE IF ~f.text_ok THEN "ERROR"
    ELSE "content"

\* a bug the dump could have: the binary marker is written and
\* files_skipped is left as it is
dump_stats_binary_uncounted(st, f) ==
    IF dump_kind(f) = "BINARY - SKIPPED"
    THEN st
    ELSE IF dump_kind(f) = "ERROR"
    THEN [st EXCEPT !.errors = @ + 1]
    ELSE [st EXCEPT !.files_processed = @ + 1, !.total_size = @ + f.length]

\* the counters after the dump of one file
dump_stats(st, f) ==
    IF dump_kind(f) = "BINARY - SKIPPED"
    THEN [st EXCEPT !.files_skipped = @ + 1]
    ELSE IF dump_kind(f) = "ERROR"
    THEN [st EXCEPT !.errors = @ + 1]
    ELSE [st EXCEPT !.files_processed = @ + 1, !.total_size = @ + f.length]

\* "for key in total_stats: total_stats[key] += stats[key]"
add_stats(total, st) ==
    [files_processed |-> total.files_processed + st.files_processed,
     files_skipped   |-> total.files_skipped + st.files_skipped,
     total_size      |-> total.total_size + st.total_size,
     errors          |-> total.errors + st.errors]

-----------------------------------------------------------------------------
(* main() and scan_directory, step by step *)

\* lines 498-503: the input root is missing; it is created and main returns 1
MainNoInput ==
    /\ pc = "start"
    /\ ~input_exists
    /\ input_exists' = TRUE
    /\ exit_status' = 1
    /\ pc' = "returned"
    /\ UNCHANGED <<input_projects, output_files, todo, cur, success_count,
                   total_stats, log, config, patterns, scanVars, fnVars>>

\* lines 508-513: the input root holds no directory
MainNoProjects ==
    /\ pc = "start"
    /\ input_exists
    /\ input_projects = {}
    /\ exit_status' = 1
    /\ pc' = "returned"
    /\ UNCHANGED <<input_exists, input_projects, output_files, todo, cur,
                   success_count, total_stats, log, config, patterns, scanVars,
                   fnVars>>

\* lines 505-523: the projects are found and sorted, the counters set
MainBegin ==
    /\ pc = "start"
    /\ input_exists
    /\ input_projects # {}
    /\ todo' = sorted_projects(input_projects)
    /\ success_count' = 0
    /\ total_stats' = NewStats
    /\ pc' = "loop"
    /\ UNCHANGED <<input_exists, input_projects, output_files, cur, exit_status,
                   log, config, patterns, scanVars, fnVars>>

\* lines 523-549: the next project is classified, its configuration loaded
\* (with the override file when there is one) and its scanner made
BeginProject ==
    /\ pc = "loop"
    /\ todo # <<>>
    /\ Head(todo).accessible
    /\ LET project == Head(todo)
           project_types == detect_project_types(project)
           c == load_default_config(project.name, project_types)
       IN  /\ cur' = project
           /\ config' = IF project.config_file # None
                        THEN load_from_file(project.config_file, c)
                        ELSE c
           /\ patterns' = GitignoreParser(project.gitignore)
    /\ todo' = Tail(todo)
    /\ stats' = NewStats
    /\ phase' = "idle"
    /\ files_to_process' = <<>>
    /\ walk_pending' = {}
    /\ pc' = "open"
    /\ UNCHANGED <<input_exists, input_projects, output_files, success_count,
                   total_stats, exit_status, log, fnVars>>

\* line 531 raising: Path.exists() at line 83 lets the PermissionError of
\* stat() through, no try encloses the call, main() raises instead of
\* returning and the interpreter ends the process with status 1
DetectRaises ==
    /\ pc = "loop"
    /\ todo # <<>>
    /\ ~Head(todo).accessible
    /\ exit_status' = 1
    /\ pc' = "raised"
    /\ UNCHANGED <<input_exists, input_projects, output_files, todo, cur,
                   success_count, total_stats, log, config, patterns, scanVars,
                   fnVars>>

\* line 552 raising (the output file cannot be opened), caught at line 568
OpenOutputFails ==
    /\ pc = "open"
    /\ log' = Append(log, [project |-> cur.name, ok |-> FALSE, exc |-> "OSError"])
    /\ pc' = "loop"
    /\ UNCHANGED <<input_exists, input_projects, output_files, todo, cur,
                   success_count, total_stats, exit_status, config, patterns,
                   scanVars, fnVars>>

\* lines 552-553 and 343: the output file is opened for writing, which
\* creates it, and scan_directory is called
OpenOutput ==
    /\ pc = "open"
    /\ output_files' = Put(output_files, output_filename(cur.name), EmptyFile)
    /\ phase' = "INIT"
    /\ files_to_process' = <<>>
    /\ pc' = "scanning"
    /\ UNCHANGED <<input_exists, input_projects, todo, cur, success_count,
                   total_stats, exit_status, log, config, patterns, stats,
                   walk_pending, fnVars>>

\* line 346: os.walk starts at the project directory
StartWalk ==
    /\ pc = "scanning"
    /\ phase = "INIT"
    /\ walk_pending' = {<<>>}
    /\ phase' = "WALKING"
    /\ UNCHANGED <<mainVars, config, patterns, stats, files_to_process, fnVars>>

\* the output file of the project being scanned
outfile == output_files[output_filename(cur.name)]

Write(content) == Put(output_files, output_filename(cur.name), content)

\* lines 349-359: the directories of root the walk descends into
kept_dirs(root) ==
    {d \in iterdir(cur, root) \cap Dirs(cur) : ~should_ignore_dir(d)}

\* a bug the walk could have: the include test is made without the ignore
\* test before it
queued_files_without_ignore(root) ==
    {p \in iterdir(cur, root) \cap FilePaths(cur) : should_include_file(FileAt(cur, p))}

\* lines 362-371: the files of root that are queued
queued_files(root) ==
    {p \in iterdir(cur, root) \cap FilePaths(cur) :
        /\ ~should_ignore_file(FileAt(cur, p))
        /\ should_include_file(FileAt(cur, p))}

\* lines 366-368: the files of root that are counted as skipped
skipped_files(root) ==
    {p \in iterdir(cur, root) \cap FilePaths(cur) : should_ignore_file(FileAt(cur, p))}

\* lines 346-371, one turn of the loop: os.walk yields a directory, the
\* ignored directories are taken out of its list and its files are counted
\* as skipped or queued (in the order of the listing, here by name)
WalkStep ==
    /\ pc = "scanning"
    /\ phase = "WALKING"
    /\ \E root \in walk_pending :
          /\ walk_pending' = (walk_pending \ {root}) \cup kept_dirs(root)
          /\ stats' = [stats EXCEPT
                         !.files_skipped = @ + Cardinality(skipped_files(root))]
          /\ files_to_process' = files_to_process \o sorted(queued_files(root))
    /\ UNCHANGED <<mainVars, config, patterns, phase, fnVars>>

\* lines 374-387: the walk is over; the queue is sorted and the header and
\* the title of the tree are written
FinishWalk ==
    /\ pc = "scanning"
    /\ phase = "WALKING"
    /\ walk_pending = {}
    /\ files_to_process' = sorted(set(files_to_process))
    /\ output_files' = Write([outfile EXCEPT
                                !.header = [project |-> config.name,
                                            type |-> config.project_type,
                                            files |-> Len(files_to_process)]])
    /\ phase' = "RENDERING_TREE"
    /\ UNCHANGED <<input_exists, input_projects, pc, todo, cur, success_count,
                   total_stats, exit_status, log, config, patterns, stats,
                   walk_pending, fnVars>>

\* lines 388-394: the tree is written; a name that cannot be encoded makes
\* output_file.write raise, which ends scan_directory
WriteTree ==
    /\ pc = "scanning"
    /\ phase = "RENDERING_TREE"
    /\ LET lines == write_tree(cur, <<>>)
       IN  /\ output_files' = Write([outfile EXCEPT !.tree = written_lines(lines)])
           /\ phase' = IF written_lines(lines) = lines THEN "DUMPING_CONTENTS"
                       ELSE "RAISED"
    /\ UNCHANGED <<input_exists, input_projects, pc, todo, cur, success_count,
                   total_stats, exit_status, log, config, patterns, stats,
                   files_to_process, walk_pending, fnVars>>

\* a bug the dump could have: the summary block is written inside the
\* loop over the queued files, after each section
DumpFile_writing_summary ==
    /\ pc = "scanning"
    /\ phase = "DUMPING_CONTENTS"
    /\ Len(outfile.sections) < Len(files_to_process)
    /\ LET file_path == files_to_process[Len(outfile.sections) + 1]
           f == FileAt(cur, file_path)
       IN  /\ output_files' = Write([outfile EXCEPT
                                       !.sections = Append(@, [path |-> file_path,
                                                               kind |-> dump_kind(f)]),
                                       !.summary = dump_stats(stats, f)])
           /\ stats' = dump_stats(stats, f)
    /\ UNCHANGED <<input_exists, input_projects, pc, todo, cur, success_count,
                   total_stats, exit_status, log, config, patterns, phase,
                   files_to_process, walk_pending, fnVars>>

\* lines 396-421, one turn of the loop: the next queued file is dumped
DumpFile ==
    /\ pc = "scanning"
    /\ phase = "DUMPING_CONTENTS"
    /\ Len(outfile.sections) < Len(files_to_process)
    /\ LET file_path == files_to_process[Len(outfile.sections) + 1]
           f == FileAt(cur, file_path)
       IN  /\ output_files' = Write([outfile EXCEPT
                                       !.sections = Append(@, [path |-> file_path,
                                                               kind |-> dump_kind(f)])])
           /\ stats' = dump_stats(stats, f)
    /\ UNCHANGED <<input_exists, input_projects, pc, todo, cur, success_count,
                   total_stats, exit_status, log, config, patterns, phase,
                   files_to_process, walk_pending, fnVars>>

\* lines 423-433: the summary is written and the counters are returned
WriteSummary ==
    /\ pc = "scanning"
    /\ phase = "DUMPING_CONTENTS"
    /\ Len(outfile.sections) = Len(files_to_process)
    /\ output_files' = Write([outfile EXCEPT !.summary = stats])
    /\ phase' = "SUMMARIZED"
    /\ UNCHANGED <<input_exists, input_projects, pc, todo, cur, success_count,
                   total_stats, exit_status, log, config, patterns, stats,
                   files_to_process, walk_pending, fnVars>>

\* lines 555-566: scan_directory returned; the totals and success_count
ScanSucceeded ==
    /\ pc = "scanning"
    /\ phase = "SUMMARIZED"
    /\ log' = Append(log, [project |-> cur.name, ok |-> TRUE, exc |-> "none"])
    /\ total_stats' = add_stats(total_stats, stats)
    /\ success_count' = success_count + 1
    /\ pc' = "loop"
    /\ UNCHANGED <<input_exists, input_projects, output_files, todo, cur,
                   exit_status, config, patterns, scanVars, fnVars>>

\* lines 568-571: scan_directory raised; the exception is printed
ScanFailed ==
    /\ pc = "scanning"
    /\ phase = "RAISED"
    /\ log' = Append(log, [project |-> cur.name, ok |-> FALSE,
                           exc |-> "UnicodeEncodeError"])
    /\ pc' = "loop"
    /\ UNCHANGED <<input_exists, input_projects, output_files, todo, cur,
                   success_count, total_stats, exit_status, config, patterns,
                   scanVars, fnVars>>

\* lines 573-584: every project was processed
MainReturn ==
    /\ pc = "loop"
    /\ todo = <<>>
    /\ exit_status' = exit_code(success_count)
    /\ pc' = "returned"
    /\ UNCHANGED <<input_exists, input_projects, output_files, todo, cur,
                   success_count, total_stats, log, config, patterns, scanVars,
                   fnVars>>

Next ==
    \/ MainNoInput \/ MainNoProjects \/ MainBegin \/ BeginProject
    \/ DetectRaises
    \/ OpenOutputFails \/ OpenOutput \/ StartWalk \/ WalkStep \/ FinishWalk
    \/ WriteTree \/ DumpFile \/ WriteSummary \/ ScanSucceeded \/ ScanFailed
    \/ MainReturn

-----------------------------------------------------------------------------
(* The runs of main(): the input roots the model starts from *)

MaxProjects == 2
MaxFiles == 2

\* a readable text file of ten characters
File(path) ==
    [path |-> path, size |-> 10, stat_ok |-> TRUE, bin_ok |-> TRUE,
     has_nul |-> FALSE, text_ok |-> TRUE, length |-> 10]

\* a project directory; its .gitignore and .scanner-config.json are files of it
MkProject(name, files, gitignore, config_file) ==
    [name |-> name,
     files |-> files
               \cup (IF gitignore = None THEN {} ELSE {File(<<<<".","g","i","t","i","g","n","o","r","e">>>>)})
               \cup (IF config_file = None THEN {} ELSE {File(<<<<".","s","c","a","n","n","e","r","-","c","o","n","f","i","g",".","j","s","o","n">>>>)}),
     gitignore |-> gitignore,
     config_file |-> config_file,
     accessible |-> TRUE]

\* a project directory the process may not search (mode 000, another owner):
\* stat() of any path below it fails with EACCES
Unreadable(name) ==
    [MkProject(name, {}, None, None) EXCEPT !.accessible = FALSE]

F_a_py == File(<<<<"a",".","p","y">>>>)
F_bad_py == File(<<<<"b","a","d",Surrogate,".","p","y">>>>)
F_bin_py == [File(<<<<"b","i","n",".","p","y">>>>) EXCEPT !.has_nul = TRUE]
F_e_py == [File(<<<<"e",".","p","y">>>>) EXCEPT !.text_ok = FALSE]

\* the files a project of the model is made of: plain sources at several
\* depths, below ignored directories, with an ignored, an upper-case or no
\* extension, binary, unreadable, too large, vanished, with a name that is
\* not UTF-8, and the marker files of two project types
CandidateFiles ==
    { F_a_py, F_bad_py, F_bin_py, F_e_py,
      File(<<<<"s","r","c">>, <<"b",".","p","y">>>>),
      File(<<<<"b","u","i","l","d">>, <<"c",".","p","y">>>>),
      File(<<<<"s","r","c">>, <<"b","u","i","l","d">>, <<"d",".","p","y">>>>),
      File(<<<<"x",".","T","M","P">>>>),
      [File(<<<<"p","i","c",".","p","n","g">>>>) EXCEPT !.has_nul = TRUE],
      [File(<<<<"b","i","g",".","p","y">>>>) EXCEPT !.size = DEFAULT_MAX_FILE_SIZE + 1],
      File(<<<<"M","a","k","e","f","i","l","e">>>>),
      File(<<<<"n","o","t","e","s",".","t","x","t">>>>),
      File(<<<<"p","a","c","k","a","g","e",".","j","s","o","n">>>>),
      File(<<<<"p","u","b","s","p","e","c",".","y","a","m","l">>>>),
      File(<<<<"a","n","d","r","o","i","d">>, <<"g",".","p","y">>>>),
      [File(<<<<"g","o","n","e",".","p","y">>>>) EXCEPT !.stat_ok = FALSE],
      [File(<<<<"l","o","c","k",".","p","y">>>>) EXCEPT !.bin_ok = FALSE, !.text_ok = FALSE] }

GI_py == [readable |-> TRUE, lines |-> <<<<"*",".","p","y">>, <<"!","a",".","p","y">>>>]
GI_src_b == [readable |-> TRUE, lines |-> <<<<"s","r","c","/","*">>, <<"!","s","r","c","/","b",".","p","y">>>>]
GI_src == [readable |-> TRUE, lines |-> <<<<"s","r","c">>>>]

CF_broken == [parseable |-> FALSE, data |-> <<>>]
CF_ignore == [parseable |-> TRUE,
              data |-> [ignore_extensions |-> JList(<<<<".","T","M","P">>, <<".","j","s","o","n">>>>),
                        code_extensions |-> JList(<<<<".","T","M","P">>>>)]]
CF_code == [parseable |-> TRUE,
            data |-> [code_extensions |-> JList(<<<<".","t","x","t">>, <<".","p","n","g">>>>)]]
CF_hidden == [parseable |-> TRUE, data |-> [include_hidden |-> JBool(TRUE)]]
CF_size == [parseable |-> TRUE, data |-> [max_file_size |-> JInt(0)]]

\* the .gitignore and the override file of a project of the model
ScanSettings ==
    { [gitignore |-> None, config_file |-> None],
      [gitignore |-> GI_py, config_file |-> None],
      [gitignore |-> GI_src_b, config_file |-> None],
      [gitignore |-> GI_src, config_file |-> None],
      [gitignore |-> None, config_file |-> CF_broken],
      [gitignore |-> None, config_file |-> CF_ignore],
      [gitignore |-> None, config_file |-> CF_code],
      [gitignore |-> None, config_file |-> CF_hidden],
      [gitignore |-> None, config_file |-> CF_size],
      [gitignore |-> GI_py, config_file |-> CF_hidden] }

\* the projects of the runs with several projects
SmallProjects ==
    { MkProject(n, fs, None, None) :
        n \in {<<"p","1">>, <<"p","2">>, <<"p","3">>},
        fs \in {{}, {F_a_py}, {F_bad_py}, {F_e_py, F_bin_py}} }
    \cup { Unreadable(n) : n \in {<<"p","1">>, <<"p","2">>, <<"p","3">>} }

\* the projects of the runs with one project
RichProjects ==
    { MkProject(<<"p","1">>, fs, st.gitignore, st.config_file) :
        fs \in {S \in SUBSET CandidateFiles : Cardinality(S) <= MaxFiles},
        st \in ScanSettings }
    \cup { Unreadable(<<"p","1">>) }

\* the input roots with at most n of the projects P, no two of a name
Roots(P, n) ==
    {S \in SUBSET P : /\ Cardinality(S) <= n
                      /\ \A x, y \in S : x.name = y.name => x = y}

\* a process about to call main(), with an empty output directory
InitProcess ==
    /\ output_files = [n \in {} |-> None]
    /\ pc = "start"
    /\ todo = <<>>
    /\ cur = None
    /\ success_count = 0
    /\ total_stats = NewStats
    /\ exit_status = None
    /\ log = <<>>
    /\ config = None
    /\ patterns = <<>>
    /\ stats = NewStats
    /\ phase = "idle"
    /\ files_to_process = <<>>
    /\ walk_pending = {}
    /\ fn_pc = "idle" /\ fn_in = None /\ fn_out = FALSE

\* main() on a missing input root, or on one with up to MaxProjects projects
Init ==
    /\ input_exists \in BOOLEAN
    /\ input_projects \in (IF input_exists THEN Roots(SmallProjects, MaxProjects)
                           ELSE {{}})
    /\ InitProcess

Spec == Init /\ [][Next]_vars

\* main() on a missing input root, or on one with at most one project, made
\* of up to MaxFiles files, a .gitignore and an override file
InitScan ==
    /\ input_exists \in BOOLEAN
    /\ input_projects \in (IF input_exists THEN {{}} \cup {{p} : p \in RichProjects}
                           ELSE {{}})
    /\ InitProcess

SpecScan == InitScan /\ [][Next]_vars

-----------------------------------------------------------------------------
(* The pure functions called on their own: inputs from bounded sets *)

\* every variable of the driver and of the scanner, at rest
Idle ==
    /\ input_exists = FALSE /\ input_projects = {} /\ output_files = <<>>
    /\ pc = "idle" /\ todo = <<>> /\ cur = None /\ success_count = 0
    /\ total_stats = None /\ exit_status = None /\ log = <<>>
    /\ stats = None /\ phase = "idle" /\ files_to_process = <<>>
    /\ walk_pending = {}

\* all sequences over S of length at most n
SeqsUpTo(S, n) == UNION {[1..k -> S] : k \in 0..n}

MaxGiLines == 3

GiLines ==
    { <<"f","o","o",".","t","x","t">>, <<"!","f","o","o",".","t","x","t">>,
      <<"*",".","t","x","t">>, <<"!","*",".","t","x","t">>,
      <<"#"," ","f","o","o",".","t","x","t">>, <<>>,
      <<" "," ","f","o","o",".","t","x","t"," ">>,
      <<"d","/","*">>, <<"!","d","/","f","o","o",".","t","x","t">> }

GiPaths ==
    { <<"f","o","o",".","t","x","t">>, <<"d","/","f","o","o",".","t","x","t">>,
      <<"b","a","r",".","p","y">>, <<"d">> }

GiFiles ==
    {None, [readable |-> FALSE, lines |-> <<>>]}
    \cup {[readable |-> TRUE, lines |-> l] : l \in SeqsUpTo(GiLines, MaxGiLines)}

InitGitignore ==
    /\ Idle
    /\ fn_pc = "gi_new"
    /\ fn_in \in {[file |-> f, path |-> <<>>] : f \in GiFiles}
    /\ fn_out = FALSE
    /\ patterns = <<>>
    /\ config = None

\* scanner.gitignore = GitignoreParser(project_dir / '.gitignore')
GitignoreConstruct ==
    /\ fn_pc = "gi_new"
    /\ patterns' = GitignoreParser(fn_in.file)
    /\ fn_pc' = "gi_loaded"
    /\ UNCHANGED <<mainVars, scanVars, config, fn_in, fn_out>>

\* a call of gitignore.should_ignore(path)
GitignoreShouldIgnore ==
    /\ fn_pc \in {"gi_loaded", "gi_called"}
    /\ \E path \in GiPaths :
          /\ fn_in' = [fn_in EXCEPT !.path = path]
          /\ fn_out' = should_ignore(patterns, path)
    /\ fn_pc' = "gi_called"
    /\ UNCHANGED <<mainVars, scanVars, config, patterns>>

NextGitignore == GitignoreConstruct \/ GitignoreShouldIgnore

SpecGitignore == InitGitignore /\ [][NextGitignore]_vars

MaxTypes == 2
MaxKeys == 2

\* the labels of the detection table that the configuration reads, and one
\* it does not read, in the table's order
ConfigLabels ==
    <<"python", "django", "nodejs", "react", "vue", "java", "spring", "rust",
      "go", "flutter", "docker">>

\* the sublist of ConfigLabels at the positions I
RECURSIVE Sublist(_, _)
Sublist(list, I) ==
    IF list = <<>> THEN <<>>
    ELSE LET rest == Sublist(Tail(list), {i - 1 : i \in I \ {1}})
         IN  IF 1 \in I THEN <<Head(list)>> \o rest ELSE rest

\* what detect_project_types can return over ConfigLabels: the detected
\* labels in the table's order, and <<"generic">> when there is none
TypeLists ==
    { IF I = {} THEN <<"generic">> ELSE Sublist(ConfigLabels, I) :
        I \in {J \in SUBSET (1..Len(ConfigLabels)) : Cardinality(J) <= MaxTypes} }

\* the values a key of .scanner-config.json takes in the model
KeyValues ==
    [code_extensions   |-> {JList(<<<<".","t","m","p">>>>), JList(<<<<"P","Y">>>>),
                            JInt(5)},
     ignore_dirs       |-> {JList(<<<<"d","o","c","s">>>>), JInt(5)},
     ignore_files      |-> {JList(<<<<"*",".","b","a","k">>>>)},
     ignore_extensions |-> {JList(<<<<".","T","M","P">>, <<".","p","y">>>>), JInt(5)},
     target_subdirs    |-> {JList(<<<<"x">>>>), JInt(5)},
     max_file_size     |-> {JInt(0), JInt(-1), JInt(2048)},
     include_hidden    |-> {JBool(TRUE), JBool(FALSE)}]

\* the JSON objects with at most n of the keys
JsonObjects(n) ==
    UNION { {d \in [K -> UNION {KeyValues[k] : k \in K}] :
                \A k \in K : d[k] \in KeyValues[k]} :
            K \in {L \in SUBSET (DOMAIN KeyValues) : Cardinality(L) <= n} }

ConfigFiles ==
    {[parseable |-> FALSE, data |-> <<>>]}
    \cup {[parseable |-> TRUE, data |-> d] : d \in JsonObjects(MaxKeys)}

ProjectName == <<"p">>

InitConfig ==
    /\ Idle
    /\ fn_pc = "cfg_new"
    /\ fn_in \in {[types |-> t, file |-> f] : t \in TypeLists, f \in ConfigFiles}
    /\ fn_out = FALSE
    /\ patterns = <<>>
    /\ config = None

\* config = ConfigLoader.load_default_config(project_name, project_types)
ConfigLoadDefault ==
    /\ fn_pc = "cfg_new"
    /\ config' = load_default_config(ProjectName, fn_in.types)
    /\ fn_pc' = "cfg_default"
    /\ UNCHANGED <<mainVars, scanVars, patterns, fn_in, fn_out>>

\* config = ConfigLoader.load_from_file(config_file, config)
ConfigLoadFromFile ==
    /\ fn_pc = "cfg_default"
    /\ config' = load_from_file(fn_in.file, config)
    /\ fn_pc' = "cfg_loaded"
    /\ UNCHANGED <<mainVars, scanVars, patterns, fn_in, fn_out>>

NextConfig == ConfigLoadDefault \/ ConfigLoadFromFile

SpecConfig == InitConfig /\ [][NextConfig]_vars

-----------------------------------------------------------------------------
(* The claims *)

Max(S) == CHOOSE x \in S : \A y \in S : y <= x

\* the number of projects main() printed as scanned
Scanned == Cardinality({i \in 1..Len(log) : log[i].ok})

C2_OneOutputFile ==
    (/\ pc = "returned"
     /\ Cardinality(input_projects) = 2
     /\ \E i, j \in 1..Len(log) :
           log[i].ok /\ ~log[j].ok /\ log[j].exc = "UnicodeEncodeError")
    => /\ Len(log) = 2
       /\ exit_status = 0
       /\ \E i \in 1..Len(log) :
             log[i].ok /\ DOMAIN output_files = {output_filename(log[i].project)}

\* d is the path p or a directory above it
IsPrefix(d, p) == Len(d) <= Len(p) /\ SubSeq(p, 1, Len(d)) = d

\* the paths the scan has written into the tree, queued or dumped
TreePaths == {outfile.tree[i].path : i \in 1..Len(outfile.tree)}
QueuedPaths == set(files_to_process)
DumpedPaths == {outfile.sections[i].path : i \in 1..Len(outfile.sections)}

Scanning == cur # None /\ output_filename(cur.name) \in DOMAIN output_files
            /\ phase # "idle"

\* C3: a directory whose name is in ignore_dirs, at any depth, is never an
\* entry of the tree and is never descended into by the walk, and no file
\* at any depth below it is queued or dumped.
C3_IgnoredDirs ==
    Scanning =>
        \A d \in Dirs(cur) :
            name_of(d) \in config.ignore_dirs =>
                /\ d \notin walk_pending
                /\ \A p \in TreePaths \cup QueuedPaths \cup DumpedPaths \cup walk_pending :
                      ~IsPrefix(d, p)

\* C3 witness: the scan of a project with the file src/build/d.py is over;
\* src is in the tree, and nothing of src/build is in the tree or dumped
C3_Witness ==
    /\ Scanning
    /\ phase = "SUMMARIZED"
    /\ <<<<"s","r","c">>, <<"b","u","i","l","d">>>> \in Dirs(cur)
    /\ <<"b","u","i","l","d">> \in config.ignore_dirs
    /\ <<<<"s","r","c">>>> \in TreePaths
    /\ <<<<"s","r","c">>, <<"b","u","i","l","d">>>> \notin TreePaths
    /\ QueuedPaths = {}

\* C5: a file whose extension is an element of ignore_extensions is ignored
\* by should_ignore_file, also when its extension is in code_extensions or
\* its name in config_files, and is never queued for the content dump.
C5_IgnoreExtensionWins ==
    Scanning =>
        \A f \in cur.files :
            suffix(name_of(f.path)) \in config.ignore_extensions =>
                should_ignore_file(f) /\ f.path \notin QueuedPaths

\* C6, as claimed: once the scan of a project is over, the output holds a
\* "BINARY - SKIPPED" marker for every file of the project whose first 1024
\* bytes hold a zero byte.
C6_AsClaimed ==
    Scanning /\ phase = "SUMMARIZED" =>
        \A f \in cur.files :
            f.has_nul =>
                \E i \in 1..Len(outfile.sections) :
                    /\ outfile.sections[i].path = f.path
                    /\ outfile.sections[i].kind = "BINARY - SKIPPED"

\* the sum of the lengths of the files dumped as content
RECURSIVE ContentSize(_)
ContentSize(sections) ==
    IF sections = <<>> THEN 0
    ELSE (IF Head(sections).kind = "content"
          THEN FileAt(cur, Head(sections).path).length ELSE 0)
         + ContentSize(Tail(sections))

\* C6, amended: every file queued for the content dump whose first 1024
\* bytes hold a zero byte gets a "BINARY - SKIPPED" marker when the dump
\* comes to it, which leaves total_size and files_processed as they are and
\* adds one to files_skipped; total_size is the size of the files dumped as
\* content. A file that is ignored or not included gets no marker.
C6_QueuedBinary ==
    /\ [](Scanning =>
            /\ \A i \in 1..Len(outfile.sections) :
                  FileAt(cur, outfile.sections[i].path).has_nul =>
                      outfile.sections[i].kind = "BINARY - SKIPPED"
            /\ stats.total_size = ContentSize(outfile.sections)
            /\ phase = "SUMMARIZED" =>
                  /\ \A p \in QueuedPaths : p \in DumpedPaths
                  /\ DumpedPaths \subseteq QueuedPaths)
    /\ [][(/\ Scanning /\ phase = "DUMPING_CONTENTS"
           /\ Len(outfile.sections) < Len(files_to_process)
           /\ FileAt(cur, files_to_process[Len(outfile.sections) + 1]).has_nul
           /\ output_files' # output_files)
          => /\ stats'.total_size = stats.total_size
             /\ stats'.files_processed = stats.files_processed
             /\ stats'.files_skipped = stats.files_skipped + 1
             /\ stats'.errors = stats.errors]_vars

\* C6 witness: the scan of a project with the files a.py and bin.py, the
\* second with a zero byte, is over: bin.py has its marker, and total_size
\* is the size of a.py
C6_Witness ==
    /\ Scanning
    /\ phase = "SUMMARIZED"
    /\ files_to_process = <<<<<<"a",".","p","y">>>>, <<<<"b","i","n",".","p","y">>>>>>
    /\ outfile.sections[1].kind = "content"
    /\ outfile.sections[2].kind = "BINARY - SKIPPED"
    /\ stats.total_size = 10
    /\ stats.files_processed = 1
    /\ stats.files_skipped = 1


\* the phases of a call of scan_directory, in order
PhaseRank ==
    [INIT |-> 1, WALKING |-> 2, RENDERING_TREE |-> 3, DUMPING_CONTENTS |-> 4,
     SUMMARIZED |-> 5]

InCall(ph) == ph \in DOMAIN PhaseRank

\* the summary block of the current project's output file, None before it
\* is written
SummaryBlock ==
    IF cur # None /\ output_filename(cur.name) \in DOMAIN output_files
    THEN outfile.summary ELSE None

\* C9, as claimed: every call of scan_directory reaches SUMMARIZED: a call
\* that is over (main() is back in its loop or has returned) ended there.
C9_AsClaimed ==
    pc \in {"loop", "returned"} /\ phase # "idle" => phase = "SUMMARIZED"

\* C9, amended: a call of scan_directory moves through INIT, WALKING,
\* RENDERING_TREE, DUMPING_CONTENTS, SUMMARIZED in that order, one phase at
\* a time and never backward; it enters SUMMARIZED at most once, which is
\* when the summary block is written; a call that returns has entered it,
\* and a call that raises ends in the phase it was in, without a summary.
C9_PhaseOrder ==
    /\ [][/\ (InCall(phase) /\ phase' # phase /\ phase' # "RAISED")
             => \/ InCall(phase') /\ PhaseRank[phase'] = PhaseRank[phase] + 1
                \/ phase = "SUMMARIZED" /\ phase' = "idle" /\ pc = "loop"
          /\ (InCall(phase') /\ ~InCall(phase)) => phase' = "INIT"
          /\ phase' = "RAISED" /\ phase # "RAISED"
             => InCall(phase) /\ phase # "SUMMARIZED" /\ SummaryBlock' = None
          /\ (phase' = "SUMMARIZED" /\ phase # "SUMMARIZED")
             <=> (SummaryBlock' # None /\ SummaryBlock' # SummaryBlock)
          /\ (Len(log') > Len(log) /\ log'[Len(log')].ok)
             => phase = "SUMMARIZED" /\ SummaryBlock # None]_vars
    /\ [](pc \in {"loop", "returned"} /\ phase = "RAISED" => SummaryBlock = None)

\* C9 witness: a call of scan_directory is over and was in every phase: the
\* header, the tree, a file section and the summary are written
C9_Witness ==
    /\ pc = "loop"
    /\ phase = "SUMMARIZED"
    /\ Len(log) = 1
    /\ log[1].ok
    /\ outfile.header # None
    /\ Len(outfile.tree) = 2
    /\ Len(outfile.sections) = 2
    /\ outfile.summary = stats

\* the queued file the dump comes to next raises when it is read: it is not
\* binary (it was opened and its first bytes read), and reading it whole fails
NextReadRaises ==
    /\ Scanning
    /\ phase = "DUMPING_CONTENTS"
    /\ Len(outfile.sections) < Len(files_to_process)
    /\ LET f == FileAt(cur, files_to_process[Len(outfile.sections) + 1])
       IN  f.bin_ok /\ ~f.has_nul /\ ~f.text_ok

TreeFiles ==
    {outfile.tree[i].path : i \in {j \in 1..Len(outfile.tree) : ~outfile.tree[j].is_dir}}

\* no directory above the path is ignored by should_ignore_dir
Reached(p) == \A n \in 1..(Len(p) - 1) : ~should_ignore_dir(SubSeq(p, 1, n))

\* the tree of the current call is rendered whole
TreeRendered == Scanning /\ phase \in {"DUMPING_CONTENTS", "SUMMARIZED"}

\* C11, as claimed: once the tree is rendered, a file of the project is
\* listed in the tree if and only if it is queued for the content dump.
C11_AsClaimed ==
    TreeRendered =>
        \A f \in cur.files : f.path \in TreeFiles <=> f.path \in QueuedPaths

\* C11, amended: the tree applies the ignore predicates of the walk and not
\* the include predicate. Once the tree is rendered, a file is listed in it
\* if and only if should_ignore_file rejects it not and should_ignore_dir
\* rejects no directory above it; a file is queued if and only if it is
\* listed and should_include_file accepts it (every queued file is listed,
\* a listed file need not be queued); and at the summary the files with a
\* content, binary or error section are the queued ones.
C11_TreeAndQueue ==
    TreeRendered =>
        \A f \in cur.files :
            /\ f.path \in TreeFiles <=> (Reached(f.path) /\ ~should_ignore_file(f))
            /\ f.path \in QueuedPaths <=> (f.path \in TreeFiles /\ should_include_file(f))
            /\ phase = "SUMMARIZED" => (f.path \in DumpedPaths <=> f.path \in QueuedPaths)

\* C11 witness: the scan of a project with a.py and notes.txt is over; both
\* are listed in the tree and only a.py was queued and dumped
C11_Witness ==
    /\ Scanning
    /\ phase = "SUMMARIZED"
    /\ TreeFiles = {<<<<"a",".","p","y">>>>, <<<<"n","o","t","e","s",".","t","x","t">>>>}
    /\ QueuedPaths = {<<<<"a",".","p","y">>>>}
    /\ DumpedPaths = {<<<<"a",".","p","y">>>>}

\* the files should_ignore_file rejects during the walk: the ones in a
\* directory the walk comes to
WalkRejected ==
    Cardinality({f \in cur.files : Reached(f.path) /\ should_ignore_file(f)})

\* the sections of a kind in the output of the current call
SectionsOf(kind) ==
    Cardinality({i \in 1..Len(outfile.sections) : outfile.sections[i].kind = kind})

\* C12: every queued file gets one of three outcomes in the dump, which
\* adds exactly 1 to one counter (content: files_processed; binary:
\* files_skipped; exception: errors) and leaves the two others; no counter
\* ever decreases within a scan; after the walk files_skipped is the number
\* of files should_ignore_file rejected and the two others are 0, so a file
\* that passes the ignore test and fails the include test is in no counter;
\* and when the summary is written files_processed + errors +
\* (files_skipped - rejected in the walk) is the "Files to process" count
\* of the header, the number of queued files.
C12_Accounting ==
    /\ [][pc = "scanning" /\ pc' = "scanning"
          => /\ stats'.files_processed >= stats.files_processed
             /\ stats'.files_skipped >= stats.files_skipped
             /\ stats'.total_size >= stats.total_size
             /\ stats'.errors >= stats.errors]_vars
    /\ [][(Scanning /\ phase = "DUMPING_CONTENTS" /\ output_files' # output_files
           /\ phase' = phase)
          => LET kind == outfile'.sections[Len(outfile'.sections)].kind
                 one(b) == IF b THEN 1 ELSE 0
             IN  /\ Len(outfile'.sections) = Len(outfile.sections) + 1
                 /\ kind \in {"content", "BINARY - SKIPPED", "ERROR"}
                 /\ stats'.files_processed
                      = stats.files_processed + one(kind = "content")
                 /\ stats'.files_skipped
                      = stats.files_skipped + one(kind = "BINARY - SKIPPED")
                 /\ stats'.errors = stats.errors + one(kind = "ERROR")]_vars
    /\ [](Scanning /\ phase = "RENDERING_TREE" =>
            /\ stats.files_skipped = WalkRejected
            /\ stats.files_processed = 0
            /\ stats.errors = 0
            /\ outfile.header.files = Len(files_to_process))
    /\ [](Scanning /\ phase \in {"DUMPING_CONTENTS", "SUMMARIZED"} =>
            /\ stats.files_processed = SectionsOf("content")
            /\ stats.files_skipped = WalkRejected + SectionsOf("BINARY - SKIPPED")
            /\ stats.errors = SectionsOf("ERROR"))
    /\ [](Scanning /\ phase = "SUMMARIZED" =>
            /\ outfile.summary = stats
            /\ stats.files_processed + stats.errors
                 + (stats.files_skipped - WalkRejected)
               = outfile.header.files
            /\ outfile.header.files = Cardinality(QueuedPaths))

\* C12 witness: the scan of a project with bin.py and pic.png is over:
\* pic.png was rejected in the walk and bin.py, queued, was skipped as
\* binary in the dump, so files_skipped is 2 and the header count is 1
C12_Witness ==
    /\ Scanning
    /\ phase = "SUMMARIZED"
    /\ FilePaths(cur) = {<<<<"b","i","n",".","p","y">>>>, <<<<"p","i","c",".","p","n","g">>>>}
    /\ WalkRejected = 1
    /\ outfile.header.files = 1
    /\ outfile.summary = [files_processed |-> 0, files_skipped |-> 2,
                          total_size |-> 0, errors |-> 0]

\* the lines of a .gitignore file that hold a pattern matching the path or
\* its base name: the indexes of the lines that are neither blank nor a
\* comment and whose text, without a leading "!", matches
MatchingLines(file, path) ==
    IF file = None \/ ~file.readable THEN {}
    ELSE { i \in 1..Len(file.lines) :
             LET l == strip(file.lines[i])
             IN  /\ l # <<>>
                 /\ l[1] # "#"
                 /\ LET p == IF l[1] = "!" THEN Tail(l) ELSE l
                    IN  fnmatch(path, p) \/ fnmatch(basename(path), p) }

FooTxt == <<"f","o","o",".","t","x","t">>
NotFooTxt == <<"!","f","o","o",".","t","x","t">>

\* C4: should_ignore(path) is false when no pattern is loaded or none
\* matches; otherwise the last line of the file, in file order, whose pattern
\* matches the path or its base name decides: true if it is no negation,
\* false if it is one. The lines foo.txt, !foo.txt leave foo.txt not ignored,
\* and the lines !foo.txt, foo.txt leave it ignored.
C4_LastMatchWins ==
    fn_pc = "gi_called" =>
        LET M == MatchingLines(fn_in.file, fn_in.path)
        IN  /\ fn_out = (M # {} /\ strip(fn_in.file.lines[Max(M)])[1] # "!")
            /\ (patterns = <<>> => fn_out = FALSE)
            /\ (fn_in.file # None /\ fn_in.path = FooTxt
                /\ fn_in.file.lines = <<FooTxt, NotFooTxt>> => fn_out = FALSE)
            /\ (fn_in.file # None /\ fn_in.path = FooTxt
                /\ fn_in.file.lines = <<NotFooTxt, FooTxt>> => fn_out = TRUE)

\* C4 witness: foo.txt was asked of the patterns of the lines foo.txt,
\* !foo.txt, two matching patterns that disagree, and is not ignored
C4_Witness ==
    /\ fn_pc = "gi_called"
    /\ fn_in.file # None
    /\ fn_in.file.lines = <<FooTxt, NotFooTxt>>
    /\ fn_in.path = FooTxt
    /\ Len(patterns) = 2
    /\ fn_out = FALSE

\* a string is lowercase and starts with a dot
LowerDotted(s) == startswith(s, ".") /\ lower(s) = s

\* C7: every ProjectConfig a scan begins with (load_default_config, then
\* load_from_file when the project has a parseable .scanner-config.json) has
\* only lowercase, dot-prefixed entries in code_extensions and
\* ignore_extensions, and max_file_size > 0.
C7_ConfigInvariant ==
    fn_pc \in {"cfg_default", "cfg_loaded"} =>
        /\ \A e \in config.code_extensions \cup config.ignore_extensions :
              LowerDotted(e)
        /\ config.max_file_size > 0

\* the target_subdirs of the label overlays, in the order they are applied
OverlayTargets ==
    << [labels |-> {"python", "django"},
        target |-> {<<"s","r","c">>, <<"a","p","p">>,
                    <<"b","a","c","k","e","n","d">>, <<"b","a","c","k">>}],
       [labels |-> {"nodejs", "react", "vue"},
        target |-> {<<"s","r","c">>, <<"l","i","b">>,
                    <<"c","o","m","p","o","n","e","n","t","s">>,
                    <<"p","a","g","e","s">>}],
       [labels |-> {"java", "spring"},
        target |-> {<<"s","r","c","/","m","a","i","n","/","j","a","v","a">>,
                    <<"s","r","c","/","m","a","i","n","/",
                      "r","e","s","o","u","r","c","e","s">>,
                    <<"s","r","c">>}],
       [labels |-> {"rust"}, target |-> {<<"s","r","c">>}],
       [labels |-> {"go"},
        target |-> {<<"p","k","g">>, <<"c","m","d">>,
                    <<"i","n","t","e","r","n","a","l">>}],
       [labels |-> {"flutter"}, target |-> {<<"l","i","b">>}] >>

\* the target_subdirs of the last overlay that applies to the labels; the
\* empty set when none applies
LastOverlayTarget(types) ==
    LET A == {i \in 1..Len(OverlayTargets) : OverlayTargets[i].labels \cap set(types) # {}}
    IN  IF A = {} THEN {} ELSE OverlayTargets[Max(A)].target

SetKeys == <<"code_extensions", "ignore_dirs", "ignore_files", "ignore_extensions">>

\* the four set-valued filters hold their built-in baseline sets
BaselineKept ==
    /\ BaseCodeExtensions \subseteq config.code_extensions
    /\ BaseIgnoreDirs \subseteq config.ignore_dirs
    /\ BaseIgnoreFiles \subseteq config.ignore_files
    /\ BaseIgnoreExtensions \subseteq config.ignore_extensions

\* the merge of the override file gets as far as target_subdirs and finds a
\* list there: the file parses, holds the key, and neither it nor a
\* set-valued key before it has a value that is not a list
TargetMerged(file) ==
    /\ file.parseable
    /\ "target_subdirs" \in DOMAIN file.data
    /\ file.data["target_subdirs"].t = "list"
    /\ \A i \in 1..Len(SetKeys) :
          SetKeys[i] \in DOMAIN file.data => file.data[SetKeys[i]].t = "list"

\* C8, as claimed: the four set-valued filters keep their baseline, and
\* target_subdirs is that of the last applicable overlay, replaced by the
\* override's target_subdirs whenever the override file holds that key.
C8_AsClaimed ==
    /\ fn_pc \in {"cfg_default", "cfg_loaded"} => BaselineKept
    /\ fn_pc = "cfg_default" => config.target_subdirs = LastOverlayTarget(fn_in.types)
    /\ fn_pc = "cfg_loaded" =>
          config.target_subdirs =
              IF /\ fn_in.file.parseable
                 /\ "target_subdirs" \in DOMAIN fn_in.file.data
                 /\ fn_in.file.data["target_subdirs"].t = "list"
              THEN set(fn_in.file.data["target_subdirs"].list)
              ELSE LastOverlayTarget(fn_in.types)

\* C8, amended: the four set-valued filters keep their baseline, and
\* target_subdirs is that of the last applicable overlay, replaced by the
\* override's target_subdirs when the override file holds that key with a
\* list and no set-valued key before it holds a value that is not a list
\* (the TypeError of such a value ends the merge where it stands).
C8_MonotoneMerge ==
    /\ fn_pc \in {"cfg_default", "cfg_loaded"} => BaselineKept
    /\ fn_pc = "cfg_default" => config.target_subdirs = LastOverlayTarget(fn_in.types)
    /\ fn_pc = "cfg_loaded" =>
          config.target_subdirs =
              IF TargetMerged(fn_in.file)
              THEN set(fn_in.file.data["target_subdirs"].list)
              ELSE LastOverlayTarget(fn_in.types)

\* C8 witness: two overlays applied (python, then rust), and an override
\* file that adds a code extension and replaces target_subdirs was merged
C8_Witness ==
    /\ fn_pc = "cfg_loaded"
    /\ fn_in.types = <<"python", "rust">>
    /\ TargetMerged(fn_in.file)
    /\ "code_extensions" \in DOMAIN fn_in.file.data
    /\ config.target_subdirs = {<<"x">>}
    /\ <<".","t","m","p">> \in config.code_extensions
    /\ BaseCodeExtensions \subseteq config.code_extensions

=============================================================================
